---- MODULE Spec2Model ----
(***************************************************************************)
(* Model of delete_druid_segments_postgres.py: the batched deletion of     *)
(* rows with used = 'f' from the druid_segments table.                     *)
(*                                                                         *)
(* The store is the committed druid_segments table plus, per connection,   *)
(* the rows deleted in the open transaction.  An invocation is either the  *)
(* command (main, lines 92-134) or a direct call of delete_in_batches      *)
(* (lines 25-89) on a connection the caller owns.  Every statement sent to *)
(* the store may fail (psycopg2 raises), which is a nondeterministic       *)
(* choice of the action that models the statement.                         *)
(***************************************************************************)
EXTENDS Integers, Sequences, FiniteSets, TLC

\* ---------------------------------------------------------------- bounds
MaxRows == 3      \* identifiers of druid_segments rows: 1..MaxRows
MaxBatch == 2     \* largest --batch-size tried
MaxTally == 5     \* cap of total_deleted (a dry run never stops by itself)

Ids == 1..MaxRows
\* An invocation and its re-invocation after a failure.
Runs == {1, 2}
BatchSizes == (-1)..MaxBatch
\* --sleep: negative, zero, positive (only sleep_time > 0 is ever tested).
SleepTimes == {-1, 0, 1}

\* The default of --datasource (line 103) and one other datasource.
DefaultDatasource == "event-ac-50db6658-8bde-4ac0-9b2c-f596d5ca1748"
OtherDatasource == "other"
Datasources == {DefaultDatasource, OtherDatasource}

\* The datasource column of row i: rows of both datasources exist.
DatasourceOf(i) == IF i % 2 = 1 THEN DefaultDatasource ELSE OtherDatasource

\* A row of druid_segments: absent ("none"), or present with its used flag.
RowStates == {"none", "t", "f"}
\* The table an invocation finds: every identifier present, used or not.
InitialStores == [Ids -> {"t", "f"}]

VARIABLES
  args,           \* the parsed command line (argparse namespace)
  store,          \* committed table: id -> "none" | "t" | "f"
  txn,            \* per invocation: ids deleted in the open transaction
  conn,           \* per invocation: "none" | "open" | "closed"
  pc,             \* per invocation: position in the code
  entry,          \* per invocation: "main" | "direct"
  dry_run,        \* per invocation: the dry_run parameter of delete_in_batches
  total_deleted,  \* per invocation: the tally (line 29)
  rows,           \* per invocation: ids of the last fetchall (line 42)
  ShouldDelete,   \* per invocation: the loop flag (line 31)
  result,         \* per invocation: nothing yet, the error, or the value returned
  out,            \* per invocation: the lines printed
  store0,         \* history: the committed table when the invocation began
  failed_at,      \* history: the statement that raised
  issued,         \* history: the id sets a DELETE was executed with
  committed,      \* history: the id sets whose DELETE was committed
  selects,        \* history: number of SELECTs executed
  pauses,         \* history: number of time.sleep calls
  opened,         \* history: connections opened by the invocation
  closed,         \* history: conn.close() calls of the invocation
  lateOps,        \* history: statements issued on a closed connection
  stmts,          \* history: the statements the invocation sent, in order
  ext_log         \* history: the writes of other clients of the table

vars == <<args, store, txn, conn, pc, entry, dry_run, total_deleted, rows,
          ShouldDelete, result, out, store0, failed_at, issued, committed,
          selects, pauses, opened, closed, lateOps, stmts, ext_log>>

\* ---------------------------------------------------------------- helpers
\* Mutant: rows deleted in the open transaction of another connection are
\* hidden as well.
VisibleUnlocked(p, i) == store[i] # "none" /\ \A q \in Runs : i \notin txn[q]

\* Rows the connection of invocation p sees: committed and not deleted in
\* its own open transaction.
Visible(p, i) == store[i] # "none" /\ i \notin txn[p]

\* WHERE used = 'f' (lines 36-37): the datasource is not part of the predicate.
Eligible(p) == {i \in Ids : Visible(p, i) /\ store[i] = "f"}

EligibleIn(s) == {i \in Ids : s[i] = "f"}

Min(a, b) == IF a <= b THEN a ELSE b

\* Mutant: the LIMIT is not applied.
SelectResultsNoLimit(p) ==
  IF args.batch_size < 0 THEN {} ELSE {Eligible(p)}

\* Mutant: the LIMIT is one too large.
SelectResultsOffByOne(p) ==
  IF args.batch_size < 0 THEN {}
  ELSE {S \in SUBSET Eligible(p) :
          Cardinality(S) = Min(args.batch_size + 1, Cardinality(Eligible(p)))}

\* SELECT id ... WHERE used = 'f' LIMIT batch_size (lines 35-42): any
\* min(batch_size, eligible) of the eligible rows; PostgreSQL rejects a
\* negative LIMIT, so no result exists then.
SelectResults(p) ==
  IF args.batch_size < 0 THEN {}
  ELSE {S \in SUBSET Eligible(p) :
          Cardinality(S) = Min(args.batch_size, Cardinality(Eligible(p)))}

\* Mutant: the DELETE tests used = 'f' again.
DeleteTargetsStillUnused(p, ids) == {i \in ids : Visible(p, i) /\ store[i] = "f"}

\* DELETE ... WHERE id = ANY(ids) (lines 57-62): the visible rows among ids.
DeleteTargets(p, ids) == {i \in ids : Visible(p, i)}

\* How an invocation ended: k is "none", "error" (the exception reached the
\* caller) or "value" (v was returned).
Outcome(k, v) == [k |-> k, v |-> v]
Raised(p) == result[p].k = "error"
Returned(p) == result[p].k = "value"

Line(k, n, t) == [k |-> k, n |-> n, t |-> t]

\* A statement sent on the connection, and whether it succeeded.
Stmt(op, ok) == [op |-> op, ok |-> ok]

\* A statement on the connection of p: counted when the connection is closed.
Late(p) == IF conn[p] = "closed" THEN 1 ELSE 0

RECURSIVE SumCard(_)
SumCard(s) == IF s = <<>> THEN 0 ELSE Cardinality(Head(s)) + SumCard(Tail(s))

RECURSIVE UnionAll(_)
UnionAll(s) == IF s = <<>> THEN {} ELSE Head(s) \cup UnionAll(Tail(s))

\* ---------------------------------------------------------------- Init
Init ==
  /\ args \in [datasource : Datasources, batch_size : BatchSizes,
               sleep : SleepTimes, dry_run : BOOLEAN]
  /\ store \in InitialStores
  /\ txn = [p \in Runs |-> {}]
  /\ conn = [p \in Runs |-> "none"]
  /\ pc = [p \in Runs |-> "start"]
  /\ entry = [p \in Runs |-> "none"]
  /\ dry_run = [p \in Runs |-> FALSE]
  /\ total_deleted = [p \in Runs |-> 0]
  /\ rows = [p \in Runs |-> {}]
  /\ ShouldDelete = [p \in Runs |-> TRUE]
  /\ result = [p \in Runs |-> Outcome("none", 0)]
  /\ out = [p \in Runs |-> <<>>]
  /\ store0 = [p \in Runs |-> store]
  /\ failed_at = [p \in Runs |-> "none"]
  /\ issued = [p \in Runs |-> <<>>]
  /\ committed = [p \in Runs |-> <<>>]
  /\ selects = [p \in Runs |-> 0]
  /\ pauses = [p \in Runs |-> 0]
  /\ opened = [p \in Runs |-> 0]
  /\ closed = [p \in Runs |-> 0]
  /\ lateOps = [p \in Runs |-> 0]
  /\ stmts = [p \in Runs |-> <<>>]
  /\ ext_log = <<>>

\* ---------------------------------------------------------------- actions
\* Invocations run one after the other: the same entry point is run again
\* when the run before it has ended with an error.
MayBegin(p, e) ==
  /\ pc[p] = "start"
  /\ \A q \in Runs : q < p => pc[q] = "exited" /\ Raised(q) /\ entry[q] = e

\* The dry_run argument main passes to delete_in_batches (line 128).
MainDryRun == FALSE

\* Mutant: the connection is closed on the success path only.
FinallyClosesOnSuccess(at) == at = "returned"

\* The finally of main (lines 132-134) closes the connection on every path.
FinallyCloses(at) == at \in {"raised", "returned"}

\* Mutant: no branch deletes.
DeletesNever(p) == FALSE

\* Mutant: the dry_run flag is not consulted.
DeletesAlways(p) == TRUE

\* if not dry_run (line 55).
Deletes(p) == ~dry_run[p]

\* Mutant: the connection is in autocommit mode, the DELETE is durable at once.
AfterDeleteAutocommit(p) ==
  [i \in Ids |-> IF i \in DeleteTargets(p, rows[p]) THEN "none" ELSE store[i]]

\* cursor.execute(delete_query, (ids_to_delete,)) (line 62): psycopg2 runs
\* the statement in the open transaction; nothing is committed by it.
AfterDelete(p) == store

\* conn.commit() (line 63): the rows deleted in the transaction leave the table.
AfterCommit(p) == [i \in Ids |-> IF i \in txn[p] THEN "none" ELSE store[i]]

\* Mutant: the progress line is printed before the tally is increased.
DeletedLineStale(p) == Line("deleted", Cardinality(rows[p]), total_deleted[p])

\* Mutant: the loop also stops on a batch shorter than batch_size.
NoMoreRowsShort(S) == S = {} \/ Cardinality(S) < args.batch_size

\* if not rows (line 44).
NoMoreRows(S) == S = {}

\* Line 66, printed after total_deleted += batch_count (line 65).
DeletedLine(p) ==
  Line("deleted", Cardinality(rows[p]), total_deleted[p] + Cardinality(rows[p]))

\* Mutant: the tally counts batches, not rows.
TallyCountsBatches(p) == total_deleted[p] + 1

\* Mutant: the tally is increased by the batch size, not by the rows found.
TallyByBatchSize(p) == total_deleted[p] + args.batch_size

\* total_deleted += batch_count (line 65).
Tally(p) == total_deleted[p] + Cardinality(rows[p])

\* Mutant: the pause is taken for every delay but 0.
SleepsNonZero == args.sleep # 0

\* if sleep_time > 0 (line 73).
Sleeps == args.sleep > 0

\* Mutant: the handler re-raises without rolling back.
HandlerStmtsNoRollback == <<>>

\* conn.rollback() (line 79): the one statement of the handler.
HandlerStmts == <<Stmt("rollback", TRUE)>>

\* The invocation has begun and has not ended.
Running(p) == pc[p] \notin {"start", "exited", "killed"}

\* A DELETE of rows that another connection has deleted and not yet
\* committed waits for that transaction (PostgreSQL row locks).
Blocked(p) == \E q \in Runs \ {p} : rows[p] \cap txn[q] # {}

\* main, lines 92-112: the command line is parsed; any integers are accepted.
Main(p) ==
  /\ MayBegin(p, "main")
  /\ pc' = [pc EXCEPT ![p] = "connect"]
  /\ entry' = [entry EXCEPT ![p] = "main"]
  /\ store0' = [store0 EXCEPT ![p] = store]
  /\ UNCHANGED <<args, store, txn, conn, dry_run, total_deleted, rows,
                 ShouldDelete, result, out, failed_at, issued, committed,
                 selects, pauses, opened, closed, lateOps,
                 stmts, ext_log>>

\* delete_in_batches called by a caller that owns an open connection and
\* passes the configuration as it stands, dry_run included (line 25).
Call(p) ==
  /\ MayBegin(p, "direct")
  /\ pc' = [pc EXCEPT ![p] = "begin"]
  /\ entry' = [entry EXCEPT ![p] = "direct"]
  /\ conn' = [conn EXCEPT ![p] = "open"]
  /\ dry_run' = [dry_run EXCEPT ![p] = args.dry_run]
  /\ store0' = [store0 EXCEPT ![p] = store]
  /\ UNCHANGED <<args, store, txn, total_deleted, rows, ShouldDelete, result,
                 out, failed_at, issued, committed, selects, pauses, opened,
                 closed, lateOps,
                 stmts, ext_log>>

\* connect_to_postgres (lines 8-22, 115-117), then lines 119-130: the call
\* of delete_in_batches with dry_run = False.
Connect(p) ==
  /\ pc[p] = "connect"
  /\ \/ /\ conn' = [conn EXCEPT ![p] = "open"]
        /\ opened' = [opened EXCEPT ![p] = @ + 1]
        /\ dry_run' = [dry_run EXCEPT ![p] = MainDryRun]
        /\ out' = [out EXCEPT ![p] = @ \o <<Line("connected", 0, 0),
                     Line("starting", IF args.dry_run THEN 1 ELSE 0, 0)>>]
        /\ pc' = [pc EXCEPT ![p] = "begin"]
        /\ UNCHANGED <<result, failed_at>>
     \/ /\ out' = [out EXCEPT ![p] = Append(@, Line("connect_error", 0, 0))]
        /\ result' = [result EXCEPT ![p] = Outcome("error", 0)]
        /\ failed_at' = [failed_at EXCEPT ![p] = "connect"]
        /\ pc' = [pc EXCEPT ![p] = "exited"]
        /\ UNCHANGED <<conn, opened, dry_run>>
  /\ UNCHANGED <<args, store, txn, entry, total_deleted, rows, ShouldDelete,
                 store0, issued, committed, selects, pauses, closed, lateOps,
                 stmts, ext_log>>

\* Lines 27-31: cursor, total_deleted = 0, ShouldDelete = True.
Begin(p) ==
  /\ pc[p] = "begin"
  /\ total_deleted' = [total_deleted EXCEPT ![p] = 0]
  /\ ShouldDelete' = [ShouldDelete EXCEPT ![p] = TRUE]
  /\ pc' = [pc EXCEPT ![p] = "select"]
  /\ UNCHANGED <<args, store, txn, conn, entry, dry_run, rows, result, out,
                 store0, failed_at, issued, committed, selects, pauses,
                 opened, closed, lateOps,
                 stmts, ext_log>>

\* Lines 33-53: while ShouldDelete, the SELECT, fetchall, and the break on
\* an empty result.  cursor.execute either raises (the statement is given
\* the parameter tuple (datasource,) and has no placeholder for it; the
\* store may reject it or be unreachable) or yields a result.
Select(p) ==
  /\ pc[p] = "select"
  /\ ShouldDelete[p]
  /\ selects' = [selects EXCEPT ![p] = @ + 1]
  /\ lateOps' = [lateOps EXCEPT ![p] = @ + Late(p)]
  /\ \/ /\ failed_at' = [failed_at EXCEPT ![p] = "select"]
        /\ stmts' = [stmts EXCEPT ![p] = Append(@, Stmt("select", FALSE))]
        /\ pc' = [pc EXCEPT ![p] = "except"]
        /\ UNCHANGED <<rows, out>>
     \/ \E S \in SelectResults(p) :
          /\ rows' = [rows EXCEPT ![p] = S]
          /\ stmts' = [stmts EXCEPT ![p] = Append(@, Stmt("select", TRUE))]
          /\ IF NoMoreRows(S)
             THEN /\ out' = [out EXCEPT ![p] =
                              Append(@, Line("nomore", 0, total_deleted[p]))]
                  /\ pc' = [pc EXCEPT ![p] = "finally"]
             ELSE /\ out' = [out EXCEPT ![p] =
                              Append(@, Line("found", Cardinality(S), 0))]
                  /\ pc' = [pc EXCEPT ![p] = "batch"]
          /\ UNCHANGED failed_at
  /\ UNCHANGED <<args, store, txn, conn, entry, dry_run, total_deleted,
                 ShouldDelete, result, store0, issued, committed, pauses,
                 opened, closed,
                 ext_log>>

\* Lines 55-62: the DELETE of ids_to_delete.  The statement waits while
\* another connection holds a row of it deleted and not yet committed.
Delete(p) ==
  /\ pc[p] = "batch"
  /\ Deletes(p)
  /\ ~Blocked(p)
  /\ issued' = [issued EXCEPT ![p] = Append(@, rows[p])]
  /\ lateOps' = [lateOps EXCEPT ![p] = @ + Late(p)]
  /\ \/ /\ failed_at' = [failed_at EXCEPT ![p] = "delete"]
        /\ stmts' = [stmts EXCEPT ![p] = Append(@, Stmt("delete", FALSE))]
        /\ pc' = [pc EXCEPT ![p] = "except"]
        /\ UNCHANGED <<txn, store>>
     \/ /\ txn' = [txn EXCEPT ![p] = @ \cup DeleteTargets(p, rows[p])]
        /\ stmts' = [stmts EXCEPT ![p] = Append(@, Stmt("delete", TRUE))]
        /\ store' = AfterDelete(p)
        /\ pc' = [pc EXCEPT ![p] = "commit"]
        /\ UNCHANGED failed_at
  /\ UNCHANGED <<args, conn, entry, dry_run, total_deleted, rows,
                 ShouldDelete, result, out, store0, committed, selects,
                 pauses, opened, closed,
                 ext_log>>

\* Line 63: conn.commit().
Commit(p) ==
  /\ pc[p] = "commit"
  /\ lateOps' = [lateOps EXCEPT ![p] = @ + Late(p)]
  /\ \/ /\ failed_at' = [failed_at EXCEPT ![p] = "commit"]
        /\ stmts' = [stmts EXCEPT ![p] = Append(@, Stmt("commit", FALSE))]
        /\ pc' = [pc EXCEPT ![p] = "except"]
        /\ UNCHANGED <<store, txn, committed>>
     \/ /\ store' = AfterCommit(p)
        /\ stmts' = [stmts EXCEPT ![p] = Append(@, Stmt("commit", TRUE))]
        /\ txn' = [txn EXCEPT ![p] = {}]
        /\ committed' = [committed EXCEPT ![p] = Append(@, rows[p])]
        /\ pc' = [pc EXCEPT ![p] = "account"]
        /\ UNCHANGED failed_at
  /\ UNCHANGED <<args, conn, entry, dry_run, total_deleted, rows,
                 ShouldDelete, result, out, store0, issued, selects, pauses,
                 opened, closed,
                 ext_log>>

\* Lines 65-66: the tally and its progress line.
Account(p) ==
  /\ pc[p] = "account"
  /\ total_deleted' = [total_deleted EXCEPT ![p] = Tally(p)]
  /\ out' = [out EXCEPT ![p] = Append(@, DeletedLine(p))]
  /\ pc' = [pc EXCEPT ![p] = "loop_end"]
  /\ UNCHANGED <<args, store, txn, conn, entry, dry_run, rows, ShouldDelete,
                 result, store0, failed_at, issued, committed, selects,
                 pauses, opened, closed, lateOps,
                 stmts, ext_log>>

\* Lines 67-69: the dry-run branch; the tally is capped at MaxTally.
DryRun(p) ==
  /\ pc[p] = "batch"
  /\ ~Deletes(p)
  /\ total_deleted[p] + Cardinality(rows[p]) <= MaxTally
  /\ out' = [out EXCEPT ![p] = Append(@, Line("dry", Cardinality(rows[p]),
                                  total_deleted[p] + Cardinality(rows[p])))]
  /\ total_deleted' = [total_deleted EXCEPT ![p] = @ + Cardinality(rows[p])]
  /\ pc' = [pc EXCEPT ![p] = "loop_end"]
  /\ UNCHANGED <<args, store, txn, conn, entry, dry_run, rows, ShouldDelete,
                 result, store0, failed_at, issued, committed, selects,
                 pauses, opened, closed, lateOps,
                 stmts, ext_log>>

\* Lines 71-75: ShouldDelete = True, and the sleep when sleep_time > 0.
LoopEnd(p) ==
  /\ pc[p] = "loop_end"
  /\ ShouldDelete' = [ShouldDelete EXCEPT ![p] = TRUE]
  /\ IF Sleeps
     THEN /\ out' = [out EXCEPT ![p] = Append(@, Line("sleep", args.sleep, 0))]
          /\ pauses' = [pauses EXCEPT ![p] = @ + 1]
     ELSE UNCHANGED <<out, pauses>>
  /\ pc' = [pc EXCEPT ![p] = "select"]
  /\ UNCHANGED <<args, store, txn, conn, entry, dry_run, total_deleted, rows,
                 result, store0, failed_at, issued, committed, selects,
                 opened, closed, lateOps,
                 stmts, ext_log>>

\* Lines 77-82: the error line, conn.rollback(), raise, cursor.close().
Except(p) ==
  /\ pc[p] = "except"
  /\ out' = [out EXCEPT ![p] = Append(@, Line("error", 0, 0))]
  /\ txn' = [txn EXCEPT ![p] = {}]
  /\ stmts' = [stmts EXCEPT ![p] = @ \o HandlerStmts]
  /\ lateOps' = [lateOps EXCEPT ![p] = @ + Late(p)]
  /\ result' = [result EXCEPT ![p] = Outcome("error", 0)]
  /\ pc' = [pc EXCEPT ![p] = "raised"]
  /\ UNCHANGED <<args, store, conn, entry, dry_run, total_deleted, rows,
                 ShouldDelete, store0, failed_at, issued, committed, selects,
                 pauses, opened, closed,
                 ext_log>>

\* Lines 81-89 after the break: cursor.close(), the summary, the return.
Return(p) ==
  /\ pc[p] = "finally"
  /\ out' = [out EXCEPT ![p] = @ \o <<Line("completed", 0, 0),
                                      Line("total", 0, total_deleted[p])>>]
  /\ result' = [result EXCEPT ![p] = Outcome("value", total_deleted[p])]
  /\ pc' = [pc EXCEPT ![p] = "returned"]
  /\ UNCHANGED <<args, store, txn, conn, entry, dry_run, total_deleted, rows,
                 ShouldDelete, store0, failed_at, issued, committed, selects,
                 pauses, opened, closed, lateOps,
                 stmts, ext_log>>

\* Lines 132-134: finally: conn.close(); then the process exits.  Closing
\* discards a transaction left open.
MainFinally(p) ==
  /\ pc[p] \in {"raised", "returned"}
  /\ entry[p] = "main"
  /\ IF FinallyCloses(pc[p])
     THEN /\ conn' = [conn EXCEPT ![p] = "closed"]
          /\ closed' = [closed EXCEPT ![p] = @ + 1]
          /\ out' = [out EXCEPT ![p] = Append(@, Line("closed", 0, 0))]
     ELSE UNCHANGED <<conn, closed, out>>
  /\ txn' = [txn EXCEPT ![p] = {}]
  /\ pc' = [pc EXCEPT ![p] = "exited"]
  /\ UNCHANGED <<args, store, entry, dry_run, total_deleted, rows,
                 ShouldDelete, result, store0, failed_at, issued, committed,
                 selects, pauses, opened, lateOps,
                 stmts, ext_log>>

\* The direct call is over: the value or the error is the caller's, and so
\* is the connection (line 89, line 80).
CallEnd(p) ==
  /\ pc[p] \in {"raised", "returned"}
  /\ entry[p] = "direct"
  /\ pc' = [pc EXCEPT ![p] = "exited"]
  /\ UNCHANGED <<args, store, txn, conn, entry, dry_run, total_deleted, rows,
                 ShouldDelete, result, out, store0, failed_at, issued,
                 committed, selects, pauses, opened, closed, lateOps,
                 stmts, ext_log>>

\* One step of invocation p.
Step(p) ==
    \/ Main(p)
    \/ Call(p)
    \/ Connect(p)
    \/ Begin(p)
    \/ Select(p)
    \/ Delete(p)
    \/ Commit(p)
    \/ Account(p)
    \/ DryRun(p)
    \/ LoopEnd(p)
    \/ Except(p)
    \/ Return(p)
    \/ MainFinally(p)
    \/ CallEnd(p)

Next == \E p \in Runs : Step(p)

Spec == Init /\ [][Next]_vars

\* ---------------------------------------------------------------- claims
\* The invocation is under way.
Active(p) == pc[p] \notin {"start", "exited"}

\* No later invocation has begun.
Quiet(p) == \A q \in Runs : q > p => pc[q] = "start"

\* Eligible rows the invocation found when it began.
N0(p) == Cardinality(EligibleIn(store0[p]))

CeilDiv(n, b) == (n + b - 1) \div b

\* The table s without the rows D.
Minus(s, D) == [i \in Ids |-> IF i \in D THEN "none" ELSE s[i]]

\* The table s without its rows with used = 'f'.
Exhausted(s) == Minus(s, EligibleIn(s))

\* The total of the last printed line that carries one, -1 when there is none.
RECURSIVE LastTally(_)
LastTally(s) ==
  IF s = <<>> THEN -1
  ELSE IF s[Len(s)].k \in {"deleted", "dry", "nomore", "total"} THEN s[Len(s)].t
  ELSE LastTally(SubSeq(s, 1, Len(s) - 1))

Kinds(s) == {s[k].k : k \in 1..Len(s)}

\* C1: a run with dry_run = False, batch size B >= 1 and no failure issues
\* and commits exactly ceil(N/B) batches, returns N, and leaves no row with
\* used = 'f'.
C1_Exhaustion ==
  \A p \in Runs :
    (Returned(p) /\ ~dry_run[p] /\ args.batch_size >= 1) =>
      /\ Len(issued[p]) = CeilDiv(N0(p), args.batch_size)
      /\ Len(committed[p]) = CeilDiv(N0(p), args.batch_size)
      /\ result[p].v = N0(p)
      /\ total_deleted[p] = N0(p)
      /\ EligibleIn(store) = {}

C1_Witness ==
  /\ Returned(1) /\ ~dry_run[1] /\ args.batch_size = 2
  /\ N0(1) = 3 /\ result[1].v = 3
  /\ Len(committed[1]) = 2
  /\ Cardinality(committed[1][1]) = 2 /\ Cardinality(committed[1][2]) = 1

\* C2: only rows whose datasource is the configured filter value are
\* selected or deleted; an unused row of another datasource stays.
C2_FilterScopes ==
  \A p \in Runs :
    /\ \A i \in rows[p] \cup UnionAll(issued[p]) :
         DatasourceOf(i) = args.datasource
    /\ \A i \in Ids :
         (Active(p) /\ store0[p][i] = "f" /\ DatasourceOf(i) # args.datasource)
           => store[i] = "f"

\* C3: while delete_in_batches runs with dry_run = True the store is as it
\* was: no DELETE, no commit, the same rows with used = 'f'.
C3_DryRunFrame ==
  \A p \in Runs :
    (Active(p) /\ dry_run[p]) =>
      /\ store = store0[p]
      /\ txn[p] = {}
      /\ issued[p] = <<>>
      /\ committed[p] = <<>>

C3_Witness ==
  /\ dry_run[1] /\ pc[1] = "loop_end"
  /\ total_deleted[1] >= 2
  /\ EligibleIn(store) # {}

\* C4: the command run with --dry-run deletes nothing.
C4_ToggleHonoured ==
  \A p \in Runs :
    (entry[p] = "main" /\ args.dry_run) =>
      /\ issued[p] = <<>>
      /\ Active(p) => store = store0[p]

\* C5: a dry run over N >= 1 eligible rows counts every row once: the
\* tally never exceeds N, and once it is N no further batch is found.
C5_DryRunCountsOnce ==
  \A p \in Runs :
    (dry_run[p] /\ N0(p) >= 1) =>
      /\ total_deleted[p] <= N0(p)
      /\ total_deleted[p] = N0(p) => pc[p] # "batch"

\* C6: when the DELETE or the commit of batch k fails, the committed store
\* is the initial one without the rows of batches 1..k-1; every row of
\* batch k is still there.
C6_AtomicBatch ==
  \A p \in Runs :
    (Raised(p) /\ Quiet(p) /\ ~dry_run[p]
       /\ failed_at[p] \in {"delete", "commit"}) =>
      /\ Len(issued[p]) = Len(committed[p]) + 1
      /\ committed[p] = SubSeq(issued[p], 1, Len(committed[p]))
      /\ store = Minus(store0[p], UnionAll(committed[p]))
      /\ issued[p][Len(issued[p])] \subseteq EligibleIn(store)
      /\ Cardinality(EligibleIn(store)) = N0(p) - SumCard(committed[p])

C6_Witness ==
  /\ pc[1] = "raised" /\ ~dry_run[1]
  /\ failed_at[1] = "commit"
  /\ Len(committed[1]) = 1 /\ Len(issued[1]) = 2

\* C7: every batch a DELETE is issued for has between 1 and batch_size
\* identifiers; an empty selection ends the loop.
C7_BatchBound ==
  \A p \in Runs :
    /\ \A k \in 1..Len(issued[p]) :
         /\ Cardinality(issued[p][k]) >= 1
         /\ Cardinality(issued[p][k]) <= args.batch_size
    /\ pc[p] \in {"batch", "commit", "account", "loop_end"} => rows[p] # {}
    /\ pc[p] \in {"finally", "returned"} => rows[p] = {}

C7_Witness ==
  /\ Len(issued[1]) = 2
  /\ Cardinality(issued[1][1]) = 2
  /\ Cardinality(issued[1][2]) = 1
  /\ pc[1] = "finally"

\* The store an uninterrupted run without failure ends with.
UninterruptedFinal(s) == IF args.batch_size >= 1 THEN Exhausted(s) ELSE s

\* C8: a failed run followed by a run without failure ends with the store
\* an uninterrupted run ends with: with a positive batch size no row with
\* used = 'f' remains and the other rows are untouched.
C8_Resume ==
  /\ (Returned(1) /\ ~dry_run[1]) => store = UninterruptedFinal(store0[1])
  /\ (Raised(1) /\ failed_at[1] \in {"select", "delete", "commit"}
        /\ ~dry_run[1] /\ Returned(2) /\ ~dry_run[2]) =>
       /\ store = UninterruptedFinal(store0[1])
       /\ args.batch_size >= 1 =>
            /\ EligibleIn(store) = {}
            /\ \A i \in Ids : store0[1][i] # "f" => store[i] = store0[1][i]

C8_Witness ==
  /\ Raised(1) /\ failed_at[1] = "commit" /\ Len(committed[1]) = 1
  /\ Returned(2) /\ ~dry_run[2] /\ Len(committed[2]) >= 1
  /\ N0(1) = 3

C10_OneConnection ==
  \A p \in Runs :
    entry[p] = "main" =>
      /\ opened[p] <= 1
      /\ lateOps[p] = 0
      /\ pc[p] = "exited" => closed[p] = opened[p]
      /\ pc[p] # "exited" => closed[p] = 0 /\ conn[p] # "closed"
      /\ (pc[p] = "exited" /\ opened[p] = 1) => conn[p] = "closed"

C10_Witness ==
  /\ entry[1] = "main" /\ pc[1] = "exited" /\ failed_at[1] = "commit"
  /\ opened[1] = 1 /\ closed[1] = 1
  /\ entry[2] = "main" /\ pc[2] = "exited" /\ Returned(2)
  /\ opened[2] = 1 /\ closed[2] = 1

\* C11: the command given a batch size below 1 or a negative delay is
\* rejected before a connection is attempted: it never connects, selects or
\* deletes.
C11_InvalidRejected ==
  \A p \in Runs :
    (entry[p] = "main" /\ (args.batch_size < 1 \/ args.sleep < 0)) =>
      /\ pc[p] \notin {"begin", "select", "batch", "commit", "account"}
      /\ opened[p] = 0
      /\ selects[p] = 0
      /\ issued[p] = <<>>

\* Number of printed lines of kind k.
Count(s, k) == Cardinality({j \in 1..Len(s) : s[j].k = k})

\* The statements of kind op the invocation sent.
Sent(p, op) == Cardinality({j \in 1..Len(stmts[p]) : stmts[p][j].op = op})

\* C13: delete_in_batches returns only right after a selection that came
\* back empty: ShouldDelete is never false, every non-empty selection is
\* followed by another selection (the selections of a run that returns
\* are its non-empty batches plus one), and with no eligible row there is
\* one selection, no DELETE, and the result 0.
C13_EmptyBatchEndsLoop ==
  \A p \in Runs :
    /\ ShouldDelete[p]
    /\ (pc[p] \in {"finally", "returned"} \/ Returned(p)) =>
         /\ rows[p] = {}
         /\ stmts[p][Len(stmts[p])] = Stmt("select", TRUE)
         /\ selects[p] = Count(out[p], "found") + 1
         /\ Count(out[p], "nomore") = 1
    /\ (Returned(p) /\ N0(p) = 0) =>
         /\ selects[p] = 1
         /\ stmts[p] = <<Stmt("select", TRUE)>>
         /\ issued[p] = <<>>
         /\ result[p].v = 0

\* Three batches of one row, then the empty selection.
C13_Witness ==
  /\ Returned(1) /\ N0(1) = 3 /\ selects[1] = 4 /\ args.batch_size = 1

\* No eligible row: one selection, the result 0.
C13_WitnessNoRows ==
  /\ Returned(1) /\ N0(1) = 0 /\ selects[1] = 1 /\ result[1].v = 0

\* Positions of the statements that failed.
FailedAt(p) == {j \in 1..Len(stmts[p]) : ~stmts[p][j].ok}

\* C14: after the first SELECT, DELETE or commit that fails, the invocation
\* sends no further SELECT, DELETE or commit: the failed statement is
\* followed by one rollback and nothing else, and the caller gets the
\* error, not a value.
C14_FailFast ==
  \A p \in Runs :
    /\ Cardinality(FailedAt(p)) <= 1
    /\ (failed_at[p] \in {"select", "delete", "commit"}) = (FailedAt(p) # {})
    /\ \A j \in FailedAt(p) :
         /\ stmts[p][j].op = failed_at[p]
         /\ IF pc[p] = "except"
            THEN Len(stmts[p]) = j
            ELSE /\ Len(stmts[p]) = j + 1
                 /\ stmts[p][j + 1] = Stmt("rollback", TRUE)
                 /\ pc[p] \in {"raised", "exited"}
                 /\ Raised(p)
         /\ ~Returned(p)
    /\ Sent(p, "rollback") <= 1
    /\ FailedAt(p) = {} => Sent(p, "rollback") = 0

C14_Witness ==
  /\ pc[1] = "raised" /\ failed_at[1] = "commit"
  /\ Len(committed[1]) = 1
  /\ Sent(1, "select") = 2 /\ Sent(1, "delete") = 2 /\ Sent(1, "commit") = 2
  /\ Sent(1, "rollback") = 1
  /\ EligibleIn(store) # {}

\* The lines that end the processing of a batch.
BatchDone == {"deleted", "dry"}

\* C16: with a delay above 0 there is one pause per non-empty batch, right
\* after the batch's progress line (after its commit or dry-run
\* accounting) and before the next selection, and none after the empty
\* selection; with a delay of 0 there is none.  The pauses of a run that
\* returns are as many as its non-empty batches.
C16_OnePausePerBatch ==
  \A p \in Runs :
    LET o == out[p]
        done == Count(o, "deleted") + Count(o, "dry")
    IN /\ pauses[p] = Count(o, "sleep")
       /\ args.sleep <= 0 => pauses[p] = 0
       /\ args.sleep > 0 =>
            /\ pauses[p] = IF pc[p] = "loop_end" THEN done - 1 ELSE done
            /\ \A j \in 1..Len(o) :
                 /\ o[j].k = "sleep" => j > 1 /\ o[j - 1].k \in BatchDone
                 /\ (o[j].k \in BatchDone /\ j < Len(o)) => o[j + 1].k = "sleep"
                 /\ (o[j].k = "nomore" /\ j < Len(o)) => o[j + 1].k # "sleep"
                 /\ (o[j].k \in {"found", "nomore"} /\ j > 1) =>
                      o[j - 1].k \notin BatchDone
            /\ Returned(p) =>
                 /\ pauses[p] = Count(o, "found")
                 /\ pauses[p] = selects[p] - 1
                 /\ ~dry_run[p] => pauses[p] = Len(committed[p])

C16_Witness ==
  /\ args.sleep > 0 /\ Returned(1) /\ ~dry_run[1]
  /\ Len(committed[1]) = 2 /\ pauses[1] = 2

\* Batches whose processing is complete: committed ones, or in a dry run
\* the ones reported.
DoneSum(p) ==
  IF dry_run[p]
  THEN LET o == out[p]
           RECURSIVE Sum(_)
           Sum(j) == IF j = 0 THEN 0
                     ELSE (IF o[j].k = "dry" THEN o[j].n ELSE 0) + Sum(j - 1)
       IN Sum(Len(o))
  ELSE SumCard(committed[p])

\* C17, the state part: the tally is 0 when the controller starts and is
\* the sum of the cardinalities of the batches completed so far; between
\* the commit of a batch and its accounting it is still without that batch.
C17_TallyIsSum ==
  \A p \in Runs :
    /\ pc[p] \in {"start", "connect", "begin"} => total_deleted[p] = 0
    /\ total_deleted[p] =
         IF pc[p] = "account"
         THEN DoneSum(p) - Cardinality(rows[p])
         ELSE DoneSum(p)

\* C17, the step part: the tally never decreases and changes only by the
\* cardinality of the batch just processed, in a run that deletes only at
\* the accounting that follows that batch's successful commit.
C17_TallyStep ==
  \A p \in Runs :
    /\ total_deleted'[p] >= total_deleted[p]
    /\ total_deleted'[p] # total_deleted[p] =>
         /\ total_deleted'[p] = total_deleted[p] + Cardinality(rows[p])
         /\ rows[p] # {}
         /\ ~dry_run[p] =>
              /\ pc[p] = "account"
              /\ committed[p] # <<>>
              /\ committed[p][Len(committed[p])] = rows[p]
              /\ stmts[p][Len(stmts[p])] = Stmt("commit", TRUE)
         /\ dry_run[p] => pc[p] = "batch"

\* C17: the tally starts at 0, never decreases, grows only by the batch
\* just processed (after its commit when deleting) and always equals the
\* sum of the cardinalities of the batches completed so far.
C17_Tally == [](C17_TallyIsSum) /\ [][C17_TallyStep]_vars

C17_Witness ==
  /\ ~dry_run[1] /\ pc[1] = "account"
  /\ Len(committed[1]) = 2 /\ total_deleted[1] = Cardinality(committed[1][1])
  /\ Cardinality(committed[1][2]) = 1

\* C20: in a run that deletes, with no other writer, before each selection
\* total_deleted plus the rows with used = 'f' in the committed store is
\* the initial eligible count, and no identifier is given to the DELETE in
\* two batches of the run.
C20_Conservation ==
  \A p \in Runs :
    ~dry_run[p] =>
      /\ pc[p] \in {"select", "finally", "returned"} =>
           total_deleted[p] + Cardinality(EligibleIn(store)) = N0(p)
      /\ \A j, k \in 1..Len(issued[p]) :
           j # k => issued[p][j] \cap issued[p][k] = {}

C20_Witness ==
  /\ ~dry_run[1] /\ pc[1] = "select"
  /\ Len(issued[1]) = 2 /\ total_deleted[1] = 2
  /\ Cardinality(EligibleIn(store)) = 1

\* ---------------------------------------------------------------- the process is killed
\* The process of invocation p is killed at whatever point it has reached:
\* nothing of lines 77-82 or 132-134 runs, the store drops the connection
\* and with it the open transaction.
Kill(p) ==
  /\ Running(p)
  /\ pc' = [pc EXCEPT ![p] = "killed"]
  /\ conn' = [conn EXCEPT ![p] = IF @ = "open" THEN "dropped" ELSE @]
  /\ txn' = [txn EXCEPT ![p] = {}]
  /\ UNCHANGED <<args, store, entry, dry_run, total_deleted, rows,
                 ShouldDelete, result, out, store0, failed_at, issued,
                 committed, selects, pauses, opened, closed, lateOps, stmts,
                 ext_log>>

NextKill == \E p \in Runs : Step(p) \/ Kill(p)

SpecKill == Init /\ [][NextKill]_vars

\* C15: each batch is committed before the next selection, so at most one
\* batch (at most batch_size rows) is deleted and not committed; at every
\* point, and so whenever the process is killed, the committed store is the
\* initial one without the whole batches committed.
C15_CommitPerBatch ==
  \A p \in Runs :
    /\ txn[p] # {} =>
         /\ pc[p] \in {"commit", "except"}
         /\ txn[p] = rows[p]
         /\ Cardinality(txn[p]) <= args.batch_size
    /\ \A j \in 1..Len(stmts[p]) :
         (stmts[p][j] = Stmt("delete", TRUE) /\ j < Len(stmts[p])) =>
           stmts[p][j + 1].op = "commit"
    /\ (pc[p] # "start" /\ Quiet(p)) =>
         /\ store = Minus(store0[p], UnionAll(committed[p]))
         /\ \A k \in 1..Len(committed[p]) : committed[p][k] = issued[p][k]

C15_Witness ==
  /\ pc[1] = "killed" /\ ~dry_run[1]
  /\ Len(issued[1]) = 2 /\ Len(committed[1]) = 1
  /\ stmts[1][Len(stmts[1])] = Stmt("delete", TRUE)
  /\ Cardinality(issued[1][1]) = 2 /\ Cardinality(issued[1][2]) = 1
  /\ issued[1][2] = EligibleIn(store)
  /\ store = Minus(store0[1], issued[1][1])

\* ---------------------------------------------------------------- other writers
\* Writes of other clients of the table while the invocation runs: at most
\* MaxExt of them (finitely many).
MaxExt == 2

\* The loop of lines 33-75 is running.
InLoop(p) == pc[p] \in {"select", "batch", "commit", "account", "loop_end"}

\* A write of value v to row i; hit names the invocations that have
\* selected the row and not yet sent its DELETE, with the number of that
\* selection.
ExtEntry(i, v) ==
  [i |-> i, to |-> v,
   hit |-> {<<p, selects[p]>> : p \in {q \in Runs : pc[q] = "batch" /\ i \in rows[q]}}]

\* A write waits for a transaction that has deleted the row.
ExternalEnabled(i) ==
  /\ Len(ext_log) < MaxExt
  /\ \E p \in Runs : InLoop(p)
  /\ \A q \in Runs : i \notin txn[q]

\* Another client makes row i eligible: it inserts the row with
\* used = 'f', or marks an existing row unused.
ExternalInsert(i) ==
  /\ ExternalEnabled(i)
  /\ store[i] \in {"none", "t"}
  /\ store' = [store EXCEPT ![i] = "f"]
  /\ ext_log' = Append(ext_log, ExtEntry(i, "f"))
  /\ UNCHANGED <<args, txn, conn, pc, entry, dry_run, total_deleted, rows,
                 ShouldDelete, result, out, store0, failed_at, issued,
                 committed, selects, pauses, opened, closed, lateOps, stmts>>

\* Another client sets used = 't' on the eligible row i.
ExternalUse(i) ==
  /\ ExternalEnabled(i)
  /\ store[i] = "f"
  /\ store' = [store EXCEPT ![i] = "t"]
  /\ ext_log' = Append(ext_log, ExtEntry(i, "t"))
  /\ UNCHANGED <<args, txn, conn, pc, entry, dry_run, total_deleted, rows,
                 ShouldDelete, result, out, store0, failed_at, issued,
                 committed, selects, pauses, opened, closed, lateOps, stmts>>

\* One run of the command, without delay and without --dry-run, beside the
\* other writers.
InitExt ==
  /\ Init
  /\ args.sleep = 0
  /\ args.datasource = DefaultDatasource
  /\ ~args.dry_run

\* One step of the command.
Command ==
  \/ Main(1)
  \/ Connect(1)
  \/ Begin(1)
  \/ Select(1)
  \/ Delete(1)
  \/ Commit(1)
  \/ Account(1)
  \/ LoopEnd(1)
  \/ Except(1)
  \/ Return(1)
  \/ MainFinally(1)

NextExt ==
  \/ Command
  \/ \E i \in Ids : ExternalInsert(i)
  \/ \E i \in Ids : ExternalUse(i)

\* The interpreter keeps executing the command: a step that is possible is
\* eventually taken.
SpecExt == InitExt /\ [][NextExt]_vars /\ WF_vars(Command)

\* Rows other writers have made eligible so far.
Inserted == Cardinality({k \in 1..Len(ext_log) : ext_log[k].to = "f"})

\* C12, the bound: with batch size B >= 1 and no row made eligible by
\* another writer, the non-empty iterations are at most ceil(N/B); with
\* such rows, each adds at most one iteration.
C12_IterationBound ==
  (~dry_run[1] /\ args.batch_size >= 1) =>
    /\ Inserted = 0 =>
         Count(out[1], "found") <= CeilDiv(N0(1), args.batch_size)
    /\ Count(out[1], "found") <= CeilDiv(N0(1), args.batch_size) + Inserted

\* The loop of the command is over: it returned or raised.
LoopOver == pc[1] \in {"finally", "except", "returned", "raised", "exited"}

\* C12: a deleting run with batch size B >= 1, beside writers that make
\* finitely many rows eligible, leaves its loop; with none of them after at
\* most ceil(N/B) non-empty iterations.
C12_Terminates ==
  /\ [](C12_IterationBound)
  /\ (InLoop(1) /\ ~dry_run[1] /\ args.batch_size >= 1) ~> LoopOver

C12_Witness ==
  /\ Returned(1) /\ args.batch_size = 1 /\ N0(1) = 3
  /\ Inserted = 2
  /\ Count(out[1], "found") = 5
  /\ total_deleted[1] = 5

\* C19, the step part: the DELETE changes nothing that is committed, and
\* the commit that follows removes the rows selected in the same iteration
\* and no others, whatever their used flag is by then.
C19_DeleteStep ==
  \A p \in Runs :
    /\ (pc[p] = "batch" /\ pc'[p] = "commit") =>
         /\ store' = store
         /\ txn'[p] = {i \in rows[p] : store[i] # "none"}
         /\ issued'[p] = Append(issued[p], rows[p])
    /\ (pc[p] = "commit" /\ pc'[p] = "account") =>
         /\ store' = Minus(store, rows[p])
         /\ rows'[p] = rows[p]
         /\ \A i \in Ids \ rows[p] : store'[i] = store[i]
         /\ \A i \in rows[p] : store'[i] = "none"

\* C19: each DELETE removes the identifiers of the selection of its
\* iteration, matched by identifier: rows not selected are left as they
\* are, and a selected row goes even when another writer has set it to
\* used = 't' since the selection.
C19_DeleteByIdentifier == [][C19_DeleteStep]_vars

\* Row i was set to used = 't' by another writer after selection s of the
\* command had returned it and before its DELETE.
UsedSinceSelected(i, s) ==
  \E k \in 1..Len(ext_log) :
    /\ ext_log[k].i = i
    /\ ext_log[k].to = "t"
    /\ <<1, s>> \in ext_log[k].hit

C19_Witness ==
  /\ pc[1] = "account"
  /\ \E i \in rows[1] :
       /\ UsedSinceSelected(i, selects[1])
       /\ store[i] = "none"
       /\ i \in committed[1][Len(committed[1])]

\* ---------------------------------------------------------------- two commands at once
\* The command is started for invocation p whatever the other one is doing.
Launch(p) ==
  /\ pc[p] = "start"
  /\ pc' = [pc EXCEPT ![p] = "connect"]
  /\ entry' = [entry EXCEPT ![p] = "main"]
  /\ store0' = [store0 EXCEPT ![p] = store]
  /\ UNCHANGED <<args, store, txn, conn, dry_run, total_deleted, rows,
                 ShouldDelete, result, out, failed_at, issued, committed,
                 selects, pauses, opened, closed, lateOps, stmts, ext_log>>

\* One step of the command run as invocation p.
Proc(p) ==
  \/ Launch(p)
  \/ Connect(p)
  \/ Begin(p)
  \/ Select(p)
  \/ Delete(p)
  \/ Commit(p)
  \/ Account(p)
  \/ LoopEnd(p)
  \/ Except(p)
  \/ Return(p)
  \/ MainFinally(p)

\* Two runs of the command, without delay and without --dry-run.
InitConc ==
  /\ Init
  /\ args.sleep = 0
  /\ args.datasource = DefaultDatasource
  /\ ~args.dry_run

NextConc == \E p \in Runs : Proc(p)

\* Each of the two processes keeps running.
SpecConc == InitConc /\ [][NextConc]_vars /\ \A p \in Runs : WF_vars(Proc(p))

\* The rows both invocations sent a committed DELETE for.
DeletedTwice == UnionAll(committed[1]) \cap UnionAll(committed[2])

\* C18, the state part: an invocation ends with an error only when one of
\* its own statements failed; a row that was in use when an invocation began
\* is never removed; once an invocation with a positive batch size has
\* returned, no unused row is left and the table is the table it began with
\* minus its unused rows; when both have returned, their tallies add up to
\* at least the number of rows that were unused.
C18_Final ==
  \A p \in Runs :
    /\ Raised(p) => failed_at[p] # "none"
    /\ \A i \in Ids : store0[p][i] = "t" => store[i] = "t"
    /\ (Returned(p) /\ args.batch_size >= 1) =>
         /\ EligibleIn(store) = {}
         /\ store = Exhausted(store0[p])
    /\ ((\A q \in Runs : Returned(q)) /\ args.batch_size >= 1) =>
         total_deleted[1] + total_deleted[2] >= N0(p)

====
